---- MODULE Spec2Model ----
(***************************************************************************)
(* State-machine model of the FemtoControl Tango device server             *)
(* (src/FemtoControl.py).  One action per handler of the device class.     *)
(*                                                                         *)
(* Time is counted in half seconds (one tick = 0.5 s), so that the two     *)
(* throttle windows of the source, 0.5 s and 10 s, are the integers 1 and  *)
(* 20.  Text is a sequence of one-character strings.                       *)
(***************************************************************************)
EXTENDS Integers, Sequences, FiniteSets, TLC

\* ------------------------------------------------------------------ bounds
\* The earliest reading of time.time() considered, in ticks.  Any wall clock
\* reading is far more than 10 s after the epoch; 21 ticks is the smallest.
Epoch0 == 21
\* how far the clock runs after the start of the server: in the specification of
\* the whole device, and in the one of the climate group alone
Horizon == 2
ClimateHorizon == 22
\* how long an exchange may take, in ticks
MaxDelay == 1
\* in the step-by-step specification of the session: how many commands are sent
\* in all, and how many datagrams the socket's receive queue holds
MaxSends == 3
MaxInbox == 2

\* --------------------------------------------------------- program constants
\* update_status: "> 0.5" seconds, in ticks
StatusMinInterval == 1
\* read_temp_humidity: "> 10" seconds, in ticks
ClimateMinInterval == 20

MaxNow == Epoch0 + ClimateHorizon
StartTime == MaxNow - Horizon
ClimateStart == Epoch0

\* a private attribute that was never assigned (reading it raises AttributeError)
NoAttr == -1
\* the same for the two float attributes, which hold <<mantissa, scale>>
NoFloat == <<-1, 0>>
\* the result of a conversion that raises ValueError
Raise == -1
FloatRaise == <<-2, 0>>

NL == "\n"

VARIABLES
    now,               \* time.time()
    last_status_read,  \* self.__last_status_read
    last_temp_read,    \* self.__last_temp_read
    gain,              \* self.__gain
    coupling,          \* self.__coupling
    speed,             \* self.__speed
    overload,          \* self.__overload
    temperature,       \* self.__temperature
    humidity,          \* self.__humidity
    state,             \* the Tango device state (set_state)
    con,               \* self.con: "unconnected" | "connected"
    re_temp,           \* whether self.re_temp was compiled
    op,                \* the handler that ran in the last step ("Tick": none)
    xchg,              \* the commands it passed to write_read
    exc,               \* the exception it raised ("" when it returned)
    ret,               \* <<value>> it returned, <<>> for None or a raise
    wire,              \* how its exchange ended: "data", "error", "" for none
    status_sent,       \* history: the last status read that called write_read,
                       \* less than StatusMinInterval ago: [at, ok]; at = 0: none
    temp_sent,         \* the same for the climate reads and ClimateMinInterval
    monitor,           \* the caller inside the device (Tango serialises the
                       \* requests to one device), 0 for none
    call,              \* per caller: where its handler stands, and write_read's
                       \* local ret
    nsent,             \* how many command lines con.send has put on the wire
    pending,           \* the commands the amplifier has not answered yet
    inbox              \* the datagrams waiting in the socket, oldest first

cache == <<gain, coupling, speed, overload>>
climate == <<temperature, humidity>>
device == <<now, last_status_read, last_temp_read, gain, coupling, speed, overload,
            temperature, humidity, state, con, re_temp>>
ghost == <<op, xchg, exc, ret, wire, status_sent, temp_sent>>
session == <<monitor, call, nsent, pending, inbox>>
vars == <<device, ghost, session>>

\* ------------------------------------------------------------ text helpers
Min(a, b) == IF a < b THEN a ELSE b

\* Python s[a:b] for 0 <= a <= b
Slice(s, a, b) == IF a >= Min(b, Len(s)) THEN <<>> ELSE SubSeq(s, a + 1, Min(b, Len(s)))

\* Python s[::-1]
Reverse(s) == [i \in 1..Len(s) |-> s[Len(s) + 1 - i]]

\* Python sub in s
Contains(s, sub) ==
    \E i \in 1..(Len(s) - Len(sub) + 1) : SubSeq(s, i, i + Len(sub) - 1) = sub

Digits == <<"0", "1", "2", "3", "4", "5", "6", "7", "8", "9">>
IsDigit(c) == \E i \in 1..10 : Digits[i] = c
DigitVal(c) == (CHOOSE i \in 1..10 : Digits[i] = c) - 1

\* the whitespace int() strips; of the characters used here only the newline
IsSpace(c) == c = NL

RECURSIVE LStrip(_)
LStrip(s) == IF s # <<>> /\ IsSpace(Head(s)) THEN LStrip(Tail(s)) ELSE s

Strip(s) == Reverse(LStrip(Reverse(LStrip(s))))

RECURSIVE BinVal(_)
BinVal(s) ==
    IF s = <<>> THEN 0
    ELSE 2 * BinVal(SubSeq(s, 1, Len(s) - 1)) + (IF s[Len(s)] = "1" THEN 1 ELSE 0)

\* int(s, base=2): surrounding whitespace is stripped, then every character must
\* be a binary digit and there must be one (signs, "0b" and "_" do not occur in
\* the texts used here); Raise for ValueError
IntBase2(s) ==
    LET t == Strip(s)
    IN  IF t = <<>> \/ \E i \in 1..Len(t) : t[i] \notin {"0", "1"} THEN Raise
        ELSE BinVal(t)

\* int(c) of a one-character string
IntChar(c) == IF IsDigit(c) THEN DigitVal(c) ELSE Raise

\* ------------------------------------------------------------ float(v)
IsNumCh(c) == IsDigit(c) \/ c = "."

RECURSIVE DecVal(_)
\* the number written by a sequence of decimal digits
DecVal(s) ==
    IF s = <<>> THEN 0
    ELSE 10 * DecVal(SubSeq(s, 1, Len(s) - 1)) + DigitVal(s[Len(s)])

RECURSIVE Normal(_)
\* <<m, k>> stands for m / 10^k; 2.50 and 2.5 are the same float
Normal(f) == IF f[2] > 0 /\ f[1] % 10 = 0 THEN Normal(<<f[1] \div 10, f[2] - 1>>) ELSE f

\* float(v) for v made of digits and dots (what [\d\.]+ matches): at most one dot
\* and at least one digit, else ValueError
Float(v) ==
    LET dots == {i \in 1..Len(v) : v[i] = "."}
    IN  IF Cardinality(dots) > 1 \/ Len(v) - Cardinality(dots) < 1 THEN FloatRaise
        ELSE IF dots = {} THEN <<DecVal(v), 0>>
        ELSE LET p == CHOOSE i \in dots : TRUE
             IN  Normal(<<DecVal(SubSeq(v, 1, p - 1) \o SubSeq(v, p + 1, Len(v))),
                          Len(v) - p>>)

RECURSIVE RunLen(_, _)
\* how many characters of [\d\.] follow each other in s from (1-based) index i on
RunLen(s, i) == IF i <= Len(s) /\ IsNumCh(s[i]) THEN 1 + RunLen(s, i + 1) ELSE 0

\* re.compile(r'T=([\d\.]+);H=([\d\.]+)').match(ans): the two groups, or <<>> for
\* None.  match anchors at the start only; ";" is not in the class, so the first
\* group is the whole run after "T=", and the greedy second group the whole run
\* after ";H=".
re_temp_match(ans) ==
    LET n1 == RunLen(ans, 3)
        n2 == RunLen(ans, 6 + n1)
    IN  IF /\ Slice(ans, 0, 2) = <<"T", "=">>
           /\ n1 >= 1
           /\ Slice(ans, 2 + n1, 5 + n1) = <<";", "H", "=">>
           /\ n2 >= 1
        THEN <<Slice(ans, 2, 2 + n1), Slice(ans, 5 + n1, 5 + n1 + n2)>>
        ELSE <<>>

\* ------------------------------------------------------------ the socket
\* What one con.recv(1024) does: deliver a datagram's text, or raise.
Data(s) == [k |-> "data", d |-> s]
SockError == [k |-> "error", d |-> <<>>]
SockTimeout == [k |-> "timeout", d |-> <<>>]

HasNL(s) == \E i \in 1..Len(s) : s[i] = NL

RECURSIVE RecvLoop(_, _)
\* ret = recv(); while no newline in ret: ret += recv().  recvs are the outcomes
\* of the successive recv calls; "block" when they end before a newline came.
RecvLoop(acc, recvs) ==
    IF recvs = <<>> THEN [k |-> "block", d |-> acc]
    ELSE IF Head(recvs).k # "data" THEN [k |-> Head(recvs).k, d |-> <<>>]
    ELSE LET got == acc \o Head(recvs).d
         IN  IF HasNL(got) THEN [k |-> "data", d |-> got]
             ELSE RecvLoop(got, Tail(recvs))

DONE == <<"D", "O", "N", "E">>

\* mutant: the except clauses keep what was received before the error
write_read_keeps(cmd, recvs) ==
    LET RECURSIVE Got(_, _)
        Got(acc, rs) ==
            IF rs = <<>> \/ Head(rs).k # "data" THEN acc
            ELSE IF HasNL(acc \o Head(rs).d) THEN acc \o Head(rs).d
            ELSE Got(acc \o Head(rs).d, Tail(rs))
        got == IF con = "unconnected" THEN <<>> ELSE Got(<<>>, recvs)
    IN  IF Contains(got, DONE) THEN <<>> ELSE got

\* write_read(cmd): the text it returns.  send on a socket that was never
\* connected raises socket.error, which is caught like a failed recv; both
\* except clauses leave ret = ''.
write_read(cmd, recvs) ==
    LET r == IF con = "unconnected" THEN SockError ELSE RecvLoop(<<>>, recvs)
        got == IF r.k = "data" THEN r.d ELSE <<>>
    IN  IF Contains(got, DONE) THEN <<>> ELSE got

\* how the try block of write_read ends: "data", "error" or "timeout"
Ending(recvs) == IF con = "unconnected" THEN "error" ELSE RecvLoop(<<>>, recvs).k

\* ------------------------------------------------------------ wire texts
Delays == 0..MaxDelay

S000000 == <<"0", "0", "0", "0", "0", "0", NL>>
S001011 == <<"0", "0", "1", "0", "1", "1", NL>>
SShort == <<"1", "0", "1", NL>>
SNonDigit == <<"0", "1", "0", "x", "1", "1", NL>>
TGood == <<"T", "=", "2", ".", "5", ";", "H", "=", "4", "0", NL>>
TGood2 == <<"T", "=", "3", ";", "H", "=", "4", "1", ".", "5", "0", NL>>
TBadFloat == <<"T", "=", "1", ".", "2", ".", "3", ";", "H", "=", "4", NL>>
Ack == <<"G", "=", "1", " ", "D", "O", "N", "E", NL>>
Ident == <<"F", "e", "m", "t", "o", NL>>

\* What the successive recv calls of one exchange may do.  A reply in one
\* datagram, a reply split over two, a socket error at once, a socket error
\* after a first fragment.  (settimeout(5) is followed by setblocking(True),
\* which removes the timeout again, so recv raises no socket.timeout.)
StatusScripts ==
    {<<Data(l)>> : l \in {S000000, S001011, SShort, SNonDigit}}
    \cup {<<Data(<<"0", "0", "1">>), Data(<<"0", "1", "1", NL>>)>>,
          <<SockError>>,
          <<Data(<<"0", "0", "1">>), SockError>>}

ClimateScripts ==
    {<<Data(l)>> : l \in {TGood, TGood2, TBadFloat, S001011}} \cup {<<SockError>>}

\* a write or a client command: acknowledged, or a socket error
OtherScripts == {<<Data(Ack)>>, <<SockError>>}

\* the ID? exchange of init_device
IdScripts == {<<Data(Ident)>>, <<SockError>>}

Cmd(name) == <<name>>
CmdArg(name, value) == <<name, value>>

\* ------------------------------------------------------------ bookkeeping
NeverSent == [at |-> 0, ok |-> FALSE]

\* a remembered exchange is forgotten once it is no longer within the window
Recall(sent, t, window) ==
    IF sent.at # 0 /\ t - sent.at < window THEN sent ELSE NeverSent

\* the time a handler takes: d when it waited for a reply, none otherwise
Elapse(waited, d) ==
    /\ d \in Delays
    /\ ~waited => d = 0
    /\ now + d <= MaxNow
    /\ now' = now + d

\* whether the handler returns at all with these recv outcomes
Returns(recvs) == con # "connected" \/ RecvLoop(<<>>, recvs).k # "block"

\* "return self.__x" after a call that ended with exception e ("" for none)
Return(name, e, v) ==
    /\ op' = name
    /\ exc' = IF e # "" THEN e ELSE IF v = NoAttr THEN "AttributeError" ELSE ""
    /\ ret' = IF e = "" /\ v # NoAttr THEN <<v>> ELSE <<>>

ReturnFloat(name, e, v) ==
    /\ op' = name
    /\ exc' = IF e # "" THEN e ELSE IF v = NoFloat THEN "AttributeError" ELSE ""
    /\ ret' = IF e = "" /\ v # NoFloat THEN <<v>> ELSE <<>>

ReturnNone(name) ==
    /\ op' = name
    /\ exc' = ""
    /\ ret' = <<>>

\* a handler is called only while the device exists
Running == state # "OFF"

\* the callers of the step-by-step specification
Callers == {1, 2}

\* a caller that is not inside a handler; after a call the record keeps what
\* the call did: the handler h, the command cmd, write_read's ret when its loop
\* ended and the text it returned (out), the number n of sends, the number id
\* of its command on the wire, the commands whose reply datagrams it consumed
\* (used), whether a recv raised (err) and the exception the handler ended with
Idle ==
    [pc |-> "idle", h |-> "", cmd |-> <<>>, ret |-> <<>>, out |-> <<>>, n |-> 0,
     id |-> 0, used |-> {}, err |-> FALSE, exc |-> ""]

\* nobody is inside the device, nothing is on the wire
SessionIdle ==
    /\ monitor = 0
    /\ call = [c \in Callers |-> Idle]
    /\ nsent = 0
    /\ pending = <<>>
    /\ inbox = <<>>

\* ------------------------------------------------------------ status group
\* mutants of the gate: ">=" for ">", and a window that never closes
StatusStaleGE(elapsed) == elapsed >= StatusMinInterval
StatusStaleAlways(elapsed) == elapsed >= 0

\* line 105: the refresh gate
StatusStale(elapsed) == elapsed > StatusMinInterval

\* mutant: the three gain digits read most significant first
GainOfForward(status) == IntBase2(Slice(status, 0, 3))

\* line 107: int(status[:3][::-1], base=2)
GainOf(status) == IntBase2(Reverse(Slice(status, 0, 3)))

\* line 108: [int(s) for s in status[3:6]]; <<>> when an int() raises or the
\* list cannot be unpacked into the three names
BitsOf(status) ==
    LET bits == Slice(status, 3, 6)
        ints == [i \in 1..Len(bits) |-> IntChar(bits[i])]
    IN  IF Len(bits) # 3 \/ \E i \in 1..Len(bits) : ints[i] = Raise THEN <<>> ELSE ints

\* mutant: a fault, once set, is kept
HealthOfLatched(ovl) == IF ovl # 0 \/ state = "FAULT" THEN "FAULT" ELSE "ON"

\* lines 115-118
HealthOf(ovl) == IF ovl # 0 THEN "FAULT" ELSE "ON"

\* update_status as a function of the recv outcomes: what it leaves in the
\* attributes, what it passed to write_read, the exception it ends with, and
\* whether line 113 was reached.
update_status(recvs) ==
    LET keep == [xchg |-> <<>>, exc |-> "", gain |-> gain, coupling |-> coupling,
                 speed |-> speed, overload |-> overload, stamp |-> FALSE,
                 state |-> state]
    IN  IF StatusStale(now - last_status_read)
        THEN LET status == write_read(Cmd("STATUS?"), recvs)
                 g == GainOf(status)
                 b == BitsOf(status)
                 asked == [keep EXCEPT !.xchg = <<Cmd("STATUS?")>>]
             IN  IF g = Raise THEN [asked EXCEPT !.exc = "ValueError"]
                 ELSE IF b = <<>> THEN [asked EXCEPT !.exc = "ValueError", !.gain = g]
                 ELSE [asked EXCEPT !.gain = g, !.coupling = b[1], !.speed = b[2],
                                    !.overload = b[3], !.stamp = TRUE,
                                    !.state = HealthOf(b[3])]
        ELSE keep

\* mutant: the time stamp is taken whenever the exchange was made
StatusStampAnyway(u, d) == IF u.xchg # <<>> THEN now + d ELSE last_status_read

\* line 113, reached or not
StatusStamp(u, d) == IF u.stamp THEN now + d ELSE last_status_read

\* the effect of one update_status call on the device
DoStatus(u, recvs, d) ==
    /\ Returns(recvs)
    /\ Elapse(u.xchg # <<>> /\ con = "connected", d)
    /\ gain' = u.gain
    /\ coupling' = u.coupling
    /\ speed' = u.speed
    /\ overload' = u.overload
    /\ last_status_read' = StatusStamp(u, d)
    /\ state' = u.state
    /\ xchg' = u.xchg
    /\ wire' = IF u.xchg # <<>> THEN Ending(recvs) ELSE ""
    /\ UNCHANGED <<last_temp_read, temperature, humidity, con, re_temp>>

read_gain(recvs, d) ==
    LET u == update_status(recvs)
    IN  Running /\ DoStatus(u, recvs, d) /\ Return("read_gain", u.exc, u.gain)

read_coupling(recvs, d) ==
    LET u == update_status(recvs)
    IN  Running /\ DoStatus(u, recvs, d) /\ Return("read_coupling", u.exc, u.coupling)

read_speed(recvs, d) ==
    LET u == update_status(recvs)
    IN  Running /\ DoStatus(u, recvs, d) /\ Return("read_speed", u.exc, u.speed)

read_overload(recvs, d) ==
    LET u == update_status(recvs)
    IN  Running /\ DoStatus(u, recvs, d) /\ Return("read_overload", u.exc, u.overload)

\* ------------------------------------------------------------ climate group
\* mutant of the gate: ">=" for ">"
ClimateStaleGE(elapsed) == elapsed >= ClimateMinInterval

\* line 128: the refresh gate
ClimateStale(elapsed) == elapsed > ClimateMinInterval

\* read_temp_humidity as a function of the recv outcomes
read_temp_humidity(recvs) ==
    LET keep == [xchg |-> <<>>, exc |-> "", temperature |-> temperature,
                 humidity |-> humidity, stamp |-> FALSE]
    IN  IF ClimateStale(now - last_temp_read)
        THEN LET ans == write_read(Cmd("TEMP?"), recvs)
                 m == re_temp_match(ans)
                 asked == [keep EXCEPT !.xchg = <<Cmd("TEMP?")>>]
             IN  IF ~re_temp \/ m = <<>> THEN [asked EXCEPT !.exc = "AttributeError"]
                 ELSE IF Float(m[1]) = FloatRaise \/ Float(m[2]) = FloatRaise
                      THEN [asked EXCEPT !.exc = "ValueError"]
                 ELSE [asked EXCEPT !.temperature = Float(m[1]),
                                    !.humidity = Float(m[2]), !.stamp = TRUE]
        ELSE keep

\* line 133, reached or not
ClimateStamp(u, d) == IF u.stamp THEN now + d ELSE last_temp_read

\* mutant: a climate refresh that succeeds sets the state to ON and takes both
\* time stamps
DoClimateBoth(u, recvs, d) ==
    /\ Returns(recvs)
    /\ Elapse(u.xchg # <<>> /\ con = "connected", d)
    /\ temperature' = u.temperature
    /\ humidity' = u.humidity
    /\ last_temp_read' = ClimateStamp(u, d)
    /\ last_status_read' = IF u.stamp THEN now + d ELSE last_status_read
    /\ state' = IF u.stamp THEN "ON" ELSE state
    /\ xchg' = u.xchg
    /\ wire' = IF u.xchg # <<>> THEN Ending(recvs) ELSE ""
    /\ UNCHANGED <<gain, coupling, speed, overload, con, re_temp>>

\* the effect of one read_temp_humidity call on the device
DoClimate(u, recvs, d) ==
    /\ Returns(recvs)
    /\ Elapse(u.xchg # <<>> /\ con = "connected", d)
    /\ temperature' = u.temperature
    /\ humidity' = u.humidity
    /\ last_temp_read' = ClimateStamp(u, d)
    /\ xchg' = u.xchg
    /\ wire' = IF u.xchg # <<>> THEN Ending(recvs) ELSE ""
    /\ UNCHANGED <<last_status_read, gain, coupling, speed, overload, state, con,
                   re_temp>>

read_temperature(recvs, d) ==
    LET u == read_temp_humidity(recvs)
    IN  /\ Running
        /\ DoClimate(u, recvs, d)
        /\ ReturnFloat("read_temperature", u.exc, u.temperature)

read_humidity(recvs, d) ==
    LET u == read_temp_humidity(recvs)
    IN  /\ Running
        /\ DoClimate(u, recvs, d)
        /\ ReturnFloat("read_humidity", u.exc, u.humidity)

\* ------------------------------------------------------------ amplification
\* mutant: the two bases exchanged
AmpBaseSwapped(spd) == IF spd # 0 THEN 3 ELSE 5

\* line 162: base = 5 if self.__speed else 3
AmpBase(spd) == IF spd # 0 THEN 5 ELSE 3

\* 10**n, written in decimal digits (10**12 does not fit a machine integer)
Pow10(n) == <<1>> \o [i \in 1..n |-> 0]

\* line 163
Amplification(spd, g) == Pow10(AmpBase(spd) + g)

\* lines 161-163: update_status is not called; the two attribute reads raise
\* AttributeError while no status refresh has stored them
read_amplification ==
    /\ Running
    /\ op' = "read_amplification"
    /\ xchg' = <<>>
    /\ wire' = ""
    /\ exc' = IF speed = NoAttr \/ gain = NoAttr THEN "AttributeError" ELSE ""
    /\ ret' = IF speed = NoAttr \/ gain = NoAttr THEN <<>>
              ELSE <<Amplification(speed, gain)>>
    /\ UNCHANGED device

\* ------------------------------------------------------------ writes
\* mutant: the written value is stored in the cache (the assignments that
\* lines 143, 151 and 159 have as comments)
WriteStores(name, cmd, recvs, d) ==
    /\ Running
    /\ Returns(recvs)
    /\ Elapse(con = "connected", d)
    /\ xchg' = <<cmd>>
    /\ wire' = Ending(recvs)
    /\ ReturnNone(name)
    /\ gain' = IF name = "write_gain" THEN cmd[2] ELSE gain
    /\ coupling' = IF name = "write_coupling" THEN cmd[2] ELSE coupling
    /\ speed' = IF name = "write_speed" THEN cmd[2] ELSE speed
    /\ UNCHANGED <<last_status_read, last_temp_read, overload, temperature, humidity,
                   state, con, re_temp>>

\* one write_read whose reply is dropped; nothing else is assigned
Write(name, cmd, recvs, d) ==
    /\ Running
    /\ Returns(recvs)
    /\ Elapse(con = "connected", d)
    /\ xchg' = <<cmd>>
    /\ wire' = Ending(recvs)
    /\ ReturnNone(name)
    /\ UNCHANGED <<last_status_read, last_temp_read, gain, coupling, speed, overload,
                   temperature, humidity, state, con, re_temp>>

write_gain(value, recvs, d) == Write("write_gain", CmdArg("GAIN=", value), recvs, d)

write_coupling(value, recvs, d) == Write("write_coupling", CmdArg("ACDC=", value), recvs, d)

write_speed(value, recvs, d) == Write("write_speed", CmdArg("SPEED=", value), recvs, d)

\* the write_read Tango command, called by a client with a command of its own
write_read_command(cmd, recvs, d) ==
    /\ Running
    /\ Returns(recvs)
    /\ Elapse(con = "connected", d)
    /\ op' = "write_read"
    /\ xchg' = <<cmd>>
    /\ wire' = Ending(recvs)
    /\ exc' = ""
    /\ ret' = <<write_read(cmd, recvs)>>
    /\ UNCHANGED <<last_status_read, last_temp_read, gain, coupling, speed, overload,
                   temperature, humidity, state, con, re_temp>>

\* ------------------------------------------------------------ life cycle
\* The try block of init_device: connect() raises (an address that does not
\* resolve), or it succeeds and ID? is exchanged, which raises nothing.
InitOutcomes == {"no_connect", "connected"}

\* line 97
InitState == "ON"

\* The Init command (after delete_device) and the start of the server.  The
\* cached attributes are not touched; the state is set after the try block,
\* whatever happened in it.
init_device(outcome, recvs, d) ==
    /\ outcome \in InitOutcomes
    /\ outcome = "connected" => RecvLoop(<<>>, recvs).k # "block"
    /\ Elapse(outcome = "connected", d)
    /\ last_temp_read' = 0
    /\ last_status_read' = 0
    /\ con' = IF outcome = "connected" THEN "connected" ELSE "unconnected"
    /\ re_temp' = (re_temp \/ outcome = "connected")
    /\ state' = InitState
    /\ xchg' = IF outcome = "connected" THEN <<Cmd("ID?")>> ELSE <<>>
    /\ wire' = IF outcome = "connected" THEN RecvLoop(<<>>, recvs).k ELSE ""
    /\ ReturnNone("init_device")
    /\ UNCHANGED <<gain, coupling, speed, overload, temperature, humidity>>

\* delete_device: at the Init command (before init_device) and at shutdown
delete_device ==
    /\ Running
    /\ state' = "OFF"
    /\ xchg' = <<>>
    /\ wire' = ""
    /\ ReturnNone("delete_device")
    /\ UNCHANGED <<now, last_status_read, last_temp_read, gain, coupling, speed,
                   overload, temperature, humidity, con, re_temp>>

\* time passes between two handler calls
Tick ==
    /\ now < MaxNow
    /\ now' = now + 1
    /\ op' = "Tick"
    /\ xchg' = <<>>
    /\ wire' = ""
    /\ exc' = ""
    /\ ret' = <<>>
    /\ UNCHANGED <<last_status_read, last_temp_read, gain, coupling, speed, overload,
                   temperature, humidity, state, con, re_temp>>

\* ------------------------------------------------------------ specifications
\* The device as its constructor leaves it: init_device has run once, at start.
InitAt(start) ==
    /\ now = start
    /\ last_status_read = 0
    /\ last_temp_read = 0
    /\ gain = NoAttr
    /\ coupling = NoAttr
    /\ speed = NoAttr
    /\ overload = NoAttr
    /\ temperature = NoFloat
    /\ humidity = NoFloat
    /\ state = InitState
    /\ con \in {"unconnected", "connected"}
    /\ re_temp = (con = "connected")
    /\ op = "init_device"
    /\ xchg = IF con = "connected" THEN <<Cmd("ID?")>> ELSE <<>>
    /\ wire = IF con = "connected" THEN "data" ELSE ""
    /\ exc = ""
    /\ ret = <<>>
    /\ status_sent = NeverSent
    /\ temp_sent = NeverSent
    /\ SessionIdle

Init == InitAt(StartTime)

WriteValues == {0, 1}
ClientCmds == {Cmd("ID?")}

StatusReads == {"read_gain", "read_coupling", "read_speed", "read_overload"}
ClimateReads == {"read_temperature", "read_humidity"}

\* History of a step: the read of a group that called write_read is remembered,
\* with the time it was entered and whether it returned, until it is `window`
\* old or init_device runs.  A window of 0 remembers nothing.
Follow(sent, reads, window) ==
    Recall(IF op' = "init_device" THEN NeverSent
           ELSE IF op' \in reads /\ xchg' # <<>> THEN [at |-> now, ok |-> exc' = ""]
           ELSE sent,
           now', window)

\* the whole device follows the status reads
Track ==
    /\ status_sent' = Follow(status_sent, StatusReads, StatusMinInterval)
    /\ temp_sent' = Follow(temp_sent, ClimateReads, 0)
    /\ UNCHANGED session

Next ==
    \/ (\E r \in StatusScripts, d \in Delays : read_gain(r, d)) /\ Track
    \/ (\E r \in StatusScripts, d \in Delays : read_coupling(r, d)) /\ Track
    \/ (\E r \in StatusScripts, d \in Delays : read_speed(r, d)) /\ Track
    \/ (\E r \in StatusScripts, d \in Delays : read_overload(r, d)) /\ Track
    \/ (\E r \in ClimateScripts, d \in Delays : read_temperature(r, d)) /\ Track
    \/ (\E r \in ClimateScripts, d \in Delays : read_humidity(r, d)) /\ Track
    \/ read_amplification /\ Track
    \/ (\E v \in WriteValues, r \in OtherScripts, d \in Delays : write_gain(v, r, d)) /\ Track
    \/ (\E v \in WriteValues, r \in OtherScripts, d \in Delays : write_coupling(v, r, d))
       /\ Track
    \/ (\E v \in WriteValues, r \in OtherScripts, d \in Delays : write_speed(v, r, d)) /\ Track
    \/ (\E c \in ClientCmds, r \in OtherScripts, d \in Delays : write_read_command(c, r, d))
       /\ Track
    \/ (\E o \in InitOutcomes, r \in IdScripts, d \in Delays : init_device(o, r, d)) /\ Track
    \/ delete_device /\ Track
    \/ Tick /\ Track

\* the whole device, over a short stretch of time
Spec == Init /\ [][Next]_vars

InitClimate == InitAt(ClimateStart)

\* the climate group alone follows the climate reads
TrackClimate ==
    /\ status_sent' = Follow(status_sent, StatusReads, 0)
    /\ temp_sent' = Follow(temp_sent, ClimateReads, ClimateMinInterval)
    /\ UNCHANGED session

NextClimate ==
    \/ (\E r \in ClimateScripts, d \in Delays : read_temperature(r, d)) /\ TrackClimate
    \/ (\E r \in ClimateScripts, d \in Delays : read_humidity(r, d)) /\ TrackClimate
    \/ (\E o \in InitOutcomes, r \in IdScripts, d \in Delays : init_device(o, r, d))
       /\ TrackClimate
    \/ delete_device /\ TrackClimate
    \/ Tick /\ TrackClimate

\* the climate group alone, over more than one of its windows
SpecClimate == InitClimate /\ [][NextClimate]_vars

\* every reply of six binary digits
Bit == {"0", "1"}
BitLines == {<<a, b, c, e, f, g, NL>> : a \in Bit, b \in Bit, c \in Bit, e \in Bit, f \in Bit, g \in Bit}

NextDecode ==
    \/ (\E l \in BitLines, d \in Delays : read_gain(<<Data(l)>>, d)) /\ Track
    \/ (\E l \in BitLines, d \in Delays : read_overload(<<Data(l)>>, d)) /\ Track
    \/ read_amplification /\ Track
    \/ (\E o \in InitOutcomes, r \in IdScripts, d \in Delays : init_device(o, r, d)) /\ Track
    \/ delete_device /\ Track
    \/ Tick /\ Track

\* the status group with every well-formed STATUS? reply
SpecDecode == Init /\ [][NextDecode]_vars

\* replies that are not six binary digits: too short, a letter or a digit
\* other than 0 and 1 among the first six characters, an empty line
S000200 == <<"0", "0", "0", "2", "0", "0", NL>>
S00101 == <<"0", "0", "1", "0", "1", NL>>
S2Gain == <<"2", "0", "0", "0", "0", "0", NL>>
SEmpty == <<NL>>
TNoValue == <<"T", "=", ";", "H", "=", "4", NL>>

\* the STATUS? and TEMP? replies of the specification of malformed replies: the
\* malformed ones, and a well-formed one that fills the cache
OddStatusLines == {SShort, SNonDigit, S000200, S00101, S2Gain, SEmpty, S001011}
OddClimateLines == {TBadFloat, TNoValue, S001011, TGood}

NextMalformed ==
    \/ (\E l \in OddStatusLines, d \in Delays : read_gain(<<Data(l)>>, d)) /\ Track
    \/ (\E l \in OddStatusLines, d \in Delays : read_overload(<<Data(l)>>, d)) /\ Track
    \/ (\E l \in OddClimateLines, d \in Delays : read_temperature(<<Data(l)>>, d)) /\ Track
    \/ (\E o \in InitOutcomes, r \in IdScripts, d \in Delays : init_device(o, r, d)) /\ Track
    \/ delete_device /\ Track
    \/ Tick /\ Track

\* the two read groups with malformed replies
SpecMalformed == Init /\ [][NextMalformed]_vars

\* ------------------------------------------------------------ the session in steps
\* The handlers again, one step per send and per recv, with the amplifier
\* answering on its own and more than one caller.  Time stands still here.

\* mutant: the requests to the device are not serialised
MonitorIgnored == TRUE

\* A Tango device server serialises the requests to one device (serial model
\* BY_DEVICE, the default, which run_server does not change): a request enters
\* the device only when no other is inside.  The class adds no lock of its own.
MonitorFree == monitor = 0

\* mutant: acknowledged only when the reply starts with DONE
PayloadPrefix(text) == IF Slice(text, 0, 4) = DONE THEN <<>> ELSE text

\* lines 191-198: what write_read returns for the ret its try block left
Payload(text) == IF Contains(text, DONE) THEN <<>> ELSE text

\* mutant: after a failed recv the command is sent again
ExceptRetry(r) == [r EXCEPT !.pc = "send", !.ret = <<>>, !.err = TRUE]

\* lines 184-189: both except clauses set ret = '' and fall out of the try block
Except(r) == [r EXCEPT !.pc = "eval", !.ret = <<>>, !.err = TRUE]

AckHead == <<"G", "=", "1", " ", "D", "O">>
AckTail == <<"N", "E", NL>>

\* what the amplifier answers to a command, datagram by datagram
Replies(cmd) ==
    IF cmd = Cmd("STATUS?")
    THEN {<<S001011>>, <<<<"0", "0", "1">>, <<"0", "1", "1", NL>>>>}
    ELSE IF cmd = Cmd("TEMP?") THEN {<<TGood>>}
    ELSE IF cmd = Cmd("ID?") THEN {<<Ident>>}
    ELSE {<<Ack>>, <<AckHead, AckTail>>}

\* the requests of the callers: two reads, a write, and the write_read command
\* with a query and with a setting
SessionCmds == {Cmd("ID?"), CmdArg("GAIN=", 1)}
Requests ==
    {[h |-> "read_gain", cmd |-> Cmd("STATUS?")],
     [h |-> "read_temperature", cmd |-> Cmd("TEMP?")],
     [h |-> "write_gain", cmd |-> CmdArg("GAIN=", 1)]}
    \cup {[h |-> "write_read", cmd |-> c] : c \in SessionCmds}

\* lines 105 and 128: the handler returns without calling write_read
Skips(h) ==
    \/ h = "read_gain" /\ ~StatusStale(now - last_status_read)
    \/ h = "read_temperature" /\ ~ClimateStale(now - last_temp_read)

\* a request enters the device; a read whose gate is closed is over at once
Begin(c, q) ==
    /\ Running
    /\ con = "connected"
    /\ MonitorFree
    /\ call[c].pc = "idle"
    /\ nsent < MaxSends
    /\ IF Skips(q.h)
       THEN /\ call' = [call EXCEPT ![c] = [Idle EXCEPT !.h = q.h]]
            /\ UNCHANGED monitor
       ELSE /\ call' = [call EXCEPT ![c] = [Idle EXCEPT !.pc = "send", !.h = q.h,
                                                         !.cmd = q.cmd]]
            /\ monitor' = c
    /\ UNCHANGED <<nsent, pending, inbox, device, ghost>>

\* line 180: self.con.send
Send(c) ==
    /\ call[c].pc = "send"
    /\ nsent < MaxSends
    /\ nsent' = nsent + 1
    /\ pending' = Append(pending, [cmd |-> call[c].cmd, id |-> nsent + 1])
    /\ call' = [call EXCEPT ![c] = [@ EXCEPT !.pc = "recv", !.n = @ + 1,
                                             !.id = nsent + 1]]
    /\ UNCHANGED <<monitor, inbox, device, ghost>>

\* lines 181-183: one self.con.recv and the test of the while loop; the recv
\* takes the oldest datagram of the socket, whatever it answers, or raises
Recv(c) ==
    /\ call[c].pc = "recv"
    /\ \/ /\ inbox # <<>>
          /\ LET got == call[c].ret \o Head(inbox).d
             IN  call' = [call EXCEPT ![c] =
                            [@ EXCEPT !.ret = got,
                                      !.used = @ \cup {Head(inbox).of},
                                      !.pc = IF HasNL(got) THEN "eval" ELSE "recv"]]
          /\ inbox' = Tail(inbox)
       \/ /\ call' = [call EXCEPT ![c] = Except(call[c])]
          /\ UNCHANGED inbox
    /\ UNCHANGED <<monitor, nsent, pending, device, ghost>>

\* the recv outcomes that give write_read this text: the rest of the handler
\* is the one of the handler taken as a whole
Script(text) == IF text = <<>> THEN <<SockError>> ELSE <<Data(text)>>

\* the end of a call: the text is returned and the request leaves the device
Leave(c, e) ==
    /\ call' = [call EXCEPT ![c] = [@ EXCEPT !.pc = "idle",
                                             !.out = Payload(call[c].ret),
                                             !.exc = e]]
    /\ monitor' = 0
    /\ UNCHANGED <<nsent, pending, inbox, ghost>>

\* lines 191-198, then lines 107-118 of update_status
FinishStatus(c) ==
    LET u == update_status(Script(Payload(call[c].ret)))
    IN  /\ call[c].pc = "eval"
        /\ call[c].h = "read_gain"
        /\ gain' = u.gain
        /\ coupling' = u.coupling
        /\ speed' = u.speed
        /\ overload' = u.overload
        /\ last_status_read' = StatusStamp(u, 0)
        /\ state' = u.state
        /\ Leave(c, u.exc)
        /\ UNCHANGED <<now, last_temp_read, temperature, humidity, con, re_temp>>

\* lines 191-198, then lines 130-133 of read_temp_humidity
FinishClimate(c) ==
    LET u == read_temp_humidity(Script(Payload(call[c].ret)))
    IN  /\ call[c].pc = "eval"
        /\ call[c].h = "read_temperature"
        /\ temperature' = u.temperature
        /\ humidity' = u.humidity
        /\ last_temp_read' = ClimateStamp(u, 0)
        /\ Leave(c, u.exc)
        /\ UNCHANGED <<now, last_status_read, gain, coupling, speed, overload, state,
                       con, re_temp>>

\* lines 191-198 for a write and for the write_read command
FinishOther(c) ==
    /\ call[c].pc = "eval"
    /\ call[c].h \in {"write_gain", "write_read"}
    /\ Leave(c, "")
    /\ UNCHANGED device

\* the amplifier answers the oldest command it has; the datagrams of the
\* answer join the socket's queue
Answer ==
    /\ pending # <<>>
    /\ \E r \in Replies(Head(pending).cmd) :
          /\ Len(inbox) + Len(r) <= MaxInbox
          /\ inbox' = inbox \o [i \in 1..Len(r) |-> [d |-> r[i], of |-> Head(pending).id]]
    /\ pending' = Tail(pending)
    /\ UNCHANGED <<monitor, call, nsent, device, ghost>>

\* the amplifier sends a datagram without a newline (here an empty one) before
\* it answers
Fragment ==
    /\ pending # <<>>
    /\ Len(inbox) < MaxInbox
    /\ inbox' = Append(inbox, [d |-> <<>>, of |-> Head(pending).id])
    /\ UNCHANGED <<monitor, call, nsent, pending, device, ghost>>

InitSession == InitAt(StartTime) /\ con = "connected"

NextSession ==
    \/ \E c \in Callers, q \in Requests : Begin(c, q)
    \/ \E c \in Callers : Send(c)
    \/ \E c \in Callers : Recv(c)
    \/ \E c \in Callers : FinishStatus(c)
    \/ \E c \in Callers : FinishClimate(c)
    \/ \E c \in Callers : FinishOther(c)
    \/ Answer
    \/ Fragment

\* the session, step by step
SpecSession == InitSession /\ [][NextSession]_vars

\* one caller and the write_read command alone
ExchangeRequests == {[h |-> "write_read", cmd |-> c] : c \in SessionCmds}

NextExchange ==
    \/ \E q \in ExchangeRequests : Begin(1, q)
    \/ Send(1)
    \/ Recv(1)
    \/ FinishOther(1)
    \/ Answer
    \/ Fragment

\* a caller inside write_read goes on: the send, each recv (which delivers or
\* raises) and the return are eventually made
ExchangeFair == WF_vars(Send(1)) /\ WF_vars(Recv(1)) /\ WF_vars(FinishOther(1))

\* the exchanges of one caller, which does not stop inside write_read
SpecExchangeFair == InitSession /\ [][NextExchange]_vars /\ ExchangeFair

\* ------------------------------------------------------------ claims
\* C1 as stated: a status read made less than 0.5 after the last refresh makes
\* no exchange and leaves the four cached fields alone; any other, the one made
\* exactly 0.5 after it included, makes exactly one STATUS? exchange.
C1_GateAsStated ==
    [][op' \in StatusReads =>
         IF now - last_status_read < StatusMinInterval
         THEN xchg' = <<>> /\ cache' = cache
         ELSE xchg' = <<Cmd("STATUS?")>>]_vars

\* C1 amended: the window is closed at exactly 0.5 too.  A status read made at
\* most 0.5 after the last refresh makes no exchange and leaves the four cached
\* fields alone; one made more than 0.5 after it makes exactly one STATUS?
\* exchange.
C1_Gate ==
    [][op' \in StatusReads =>
         IF now - last_status_read <= StatusMinInterval
         THEN xchg' = <<>> /\ cache' = cache
         ELSE xchg' = <<Cmd("STATUS?")>>]_vars

\* a status read was throttled exactly 0.5 after the last refresh
C1_Witness ==
    /\ op \in StatusReads
    /\ xchg = <<>>
    /\ now - last_status_read = StatusMinInterval

\* C2 as stated: whatever happens to a refresh, a status read that makes an
\* exchange is never entered less than 0.5 after another one that made one.
C2_ThrottleAsStated ==
    [][(op' \in StatusReads /\ xchg' # <<>>) => status_sent.at = 0]_vars

\* C2 amended: two status reads less than 0.5 apart, with no init_device between
\* them, make two exchanges only when the refresh of the first one failed.
C2_Throttle ==
    [][(op' \in StatusReads /\ xchg' # <<>> /\ status_sent.at # 0)
         => ~status_sent.ok]_vars

\* a status read was throttled less than 0.5 after one whose refresh succeeded
C2_Witness ==
    /\ op \in StatusReads
    /\ xchg = <<>>
    /\ status_sent.at # 0
    /\ status_sent.ok
    /\ now - status_sent.at < StatusMinInterval

\* C3 as stated: a climate read made less than 10 after the last refresh makes no
\* exchange and returns the cached value; any other, the one made exactly 10
\* after it included, makes exactly one TEMP? exchange; and a climate read that
\* makes an exchange is never entered less than 10 after another one that did.
C3_GateAsStated ==
    [][op' \in ClimateReads =>
         /\ IF now - last_temp_read < ClimateMinInterval
            THEN /\ xchg' = <<>>
                 /\ climate' = climate
                 /\ ret' = <<IF op' = "read_temperature" THEN temperature ELSE humidity>>
            ELSE xchg' = <<Cmd("TEMP?")>>
         /\ xchg' # <<>> => temp_sent.at = 0]_vars

\* C3 amended: a climate read made at most 10 after the last refresh makes no
\* exchange and returns the cached value; one made more than 10 after it makes
\* exactly one TEMP? exchange; two climate reads less than 10 apart, with no
\* init_device between them, make two exchanges only when the refresh of the
\* first one failed.
C3_Gate ==
    [][op' \in ClimateReads =>
         /\ IF now - last_temp_read <= ClimateMinInterval
            THEN /\ xchg' = <<>>
                 /\ climate' = climate
                 /\ ret' = <<IF op' = "read_temperature" THEN temperature ELSE humidity>>
            ELSE xchg' = <<Cmd("TEMP?")>>
         /\ (xchg' # <<>> /\ temp_sent.at # 0) => ~temp_sent.ok]_vars

\* a climate read was throttled exactly 10 after the last refresh
C3_Witness ==
    /\ op \in ClimateReads
    /\ xchg = <<>>
    /\ exc = ""
    /\ now - last_temp_read = ClimateMinInterval

\* C4: one status read either replaces all four cached fields (it returns) or
\* changes none of them.
C4_AllOrNothing ==
    [][op' \in StatusReads => (cache' = cache \/ (exc' = "" /\ xchg' # <<>>))]_vars

\* C5: a refresh whose exchange ends in a socket error (or timeout) leaves the
\* cached fields of its group as they were, and the read raises instead of
\* returning a value.
C5_FailedExchange ==
    [][/\ (op' \in StatusReads /\ wire' \in {"error", "timeout"})
           => (cache' = cache /\ exc' # "" /\ ret' = <<>>)
       /\ (op' \in ClimateReads /\ wire' \in {"error", "timeout"})
           => (climate' = climate /\ exc' # "" /\ ret' = <<>>)]_vars

\* a status refresh ended in a socket error on a connected socket while the
\* cache held a snapshot
C5_Witness ==
    /\ op \in StatusReads
    /\ wire = "error"
    /\ con = "connected"
    /\ exc # ""
    /\ gain # NoAttr
    /\ overload # NoAttr

\* C6: a read whose refresh failed leaves the time stamp of its group as it
\* was, the window is still open when it ends, and a read of the group that
\* follows it at once makes a new exchange.
C6_NoStampOnFailure ==
    [][/\ (op' \in StatusReads /\ xchg' # <<>> /\ exc' # "")
           => /\ last_status_read' = last_status_read
              /\ now' - last_status_read' > StatusMinInterval
       /\ (op' \in ClimateReads /\ xchg' # <<>> /\ exc' # "")
           => /\ last_temp_read' = last_temp_read
              /\ now' - last_temp_read' > ClimateMinInterval
       /\ (op \in StatusReads /\ xchg # <<>> /\ exc # "" /\ op' \in StatusReads)
           => xchg' = <<Cmd("STATUS?")>>
       /\ (op \in ClimateReads /\ xchg # <<>> /\ exc # "" /\ op' \in ClimateReads)
           => xchg' = <<Cmd("TEMP?")>>]_vars

\* a status refresh failed after an earlier one had succeeded; the stamp is the
\* earlier one's
C6_Witness ==
    /\ op \in StatusReads
    /\ xchg # <<>>
    /\ exc # ""
    /\ last_status_read # 0

\* the value of a binary digit
BitValue(c) == IF c = "1" THEN 1 ELSE 0

\* what the claim says a reply of six binary digits decodes to
Decoded(l) ==
    <<BitValue(l[1]) + 2 * BitValue(l[2]) + 4 * BitValue(l[3]),
      BitValue(l[4]), BitValue(l[5]), BitValue(l[6])>>

\* C7: a refresh whose reply is six binary digits b0..b5 stores gain = b0 + 2*b1
\* + 4*b2, coupling = b3, speed = b4, overload = b5, whatever was cached before;
\* 001011 gives gain 4, coupling 0, speed 1, overload 1; the gain is in 0..7.
\* In every reachable state with an open socket this is what update_status
\* would store for each of the 64 replies, and what the last status read did
\* store when it got one of them.
C7_Decoding ==
    /\ \A l \in BitLines :
          LET u == update_status(<<Data(l)>>)
          IN  (con = "connected" /\ u.xchg # <<>>)
              => /\ u.exc = ""
                 /\ <<u.gain, u.coupling, u.speed, u.overload>> = Decoded(l)
                 /\ u.gain \in 0..7
                 /\ l = S001011 => <<u.gain, u.coupling, u.speed, u.overload>> = <<4, 0, 1, 1>>
    /\ (op \in StatusReads /\ xchg # <<>> /\ wire = "data")
       => /\ exc = ""
          /\ gain \in 0..7
          /\ \E l \in BitLines : cache = Decoded(l)

\* the reply 001011 was decoded
C7_Witness ==
    /\ op \in StatusReads
    /\ xchg # <<>>
    /\ exc = ""
    /\ cache = <<4, 0, 1, 1>>

\* C8: an amplification read made while the status snapshot is stale makes a
\* STATUS? exchange first.
C8_AmplificationRefreshes ==
    [][(op' = "read_amplification" /\ StatusStale(now - last_status_read))
         => xchg' = <<Cmd("STATUS?")>>]_vars

\* the decimal digits x are those of 10^n
IsPow10(x, n) == Len(x) = n + 1 /\ x[1] = 1 /\ \A i \in 2..(n + 1) : x[i] = 0

\* C9: an amplification read that returns, returns 10^(base + gain) for the
\* cached gain and speed, base 5 for speed 1 (Low) and 3 for speed 0 (High):
\* between 10^3 and 10^12, 10^3 for gain 0 at High, 10^7 for gain 2 at Low.
C9_Amplification ==
    (op = "read_amplification" /\ exc = "") =>
        /\ Len(ret) = 1
        /\ IsPow10(ret[1], (IF speed = 1 THEN 5 ELSE 3) + gain)
        /\ gain \in 0..7 => Len(ret[1]) - 1 \in 3..12
        /\ (gain = 0 /\ speed = 0) => ret[1] = <<1, 0, 0, 0>>
        /\ (gain = 2 /\ speed = 1) => ret[1] = <<1, 0, 0, 0, 0, 0, 0, 0>>

\* the amplification was read with gain 2 at low speed
C9_Witness ==
    /\ op = "read_amplification"
    /\ exc = ""
    /\ gain = 2
    /\ speed = 1
    /\ ret = <<<<1, 0, 0, 0, 0, 0, 0, 0>>>>

\* whether the cached overload flag is set
Overloaded == overload # NoAttr /\ overload # 0

\* C10 as stated, for a device that exists: the state is FAULT when the cached
\* overload flag is set and ON when it is not.
C10_HealthAsStated ==
    state # "OFF" => state = (IF Overloaded THEN "FAULT" ELSE "ON")

\* C10 amended: the state is FAULT only while the cached overload flag is set;
\* a status refresh that succeeds leaves FAULT when the flag it stored is set
\* and ON when it is not (no latch); init_device leaves ON and delete_device
\* OFF, whatever the cached flag.
C10_Health ==
    [][/\ state = "FAULT" => Overloaded
       /\ state' = "FAULT" => overload' # NoAttr /\ overload' # 0
       /\ (op' \in StatusReads /\ xchg' # <<>> /\ exc' = "")
           => state' = (IF overload' # 0 THEN "FAULT" ELSE "ON")
       /\ op' = "init_device" => state' = "ON"
       /\ op' = "delete_device" => state' = "OFF"]_vars

\* a refresh made after the start stored a snapshot with the overload flag
\* clear and left the device ON
C10_Witness ==
    /\ op \in StatusReads
    /\ xchg # <<>>
    /\ exc = ""
    /\ overload = 0
    /\ state = "ON"
    /\ last_status_read > StartTime

\* the four letters D, O, N, E follow each other somewhere in the text
HasDone(t) ==
    \E i \in 1..Len(t) :
        /\ i + 3 <= Len(t)
        /\ t[i] = "D" /\ t[i + 1] = "O" /\ t[i + 2] = "N" /\ t[i + 3] = "E"

\* C11: whatever the command, a write_read whose accumulated reply holds DONE
\* anywhere returns the empty string; one whose receives all succeeded and
\* whose reply holds no DONE returns the accumulated reply, newline included.
C11_Acknowledgement ==
    \A c \in Callers :
        LET r == call[c]
        IN  (r.pc = "idle" /\ r.n > 0) =>
                /\ HasDone(r.ret) => r.out = <<>>
                /\ (~r.err /\ ~HasDone(r.ret)) => (r.out = r.ret /\ HasNL(r.out))

\* one write_read command got an acknowledgement with DONE in the middle, the
\* other an identification string
C11_Witness ==
    \E c \in Callers, e \in Callers :
        /\ call[c].pc = "idle" /\ call[c].h = "write_read"
        /\ call[c].ret = Ack /\ call[c].out = <<>>
        /\ call[e].pc = "idle" /\ call[e].h = "write_read"
        /\ call[e].ret = Ident /\ call[e].out = Ident

\* the three write handlers and the command each sends for the value v
Writes == {"write_gain", "write_coupling", "write_speed"}
WriteLine(name, v) ==
    IF name = "write_gain" THEN <<"GAIN=", v>>
    ELSE IF name = "write_coupling" THEN <<"ACDC=", v>>
    ELSE <<"SPEED=", v>>

\* C12: a write makes exactly one exchange, with GAIN=<n>, ACDC=<n> or
\* SPEED=<n>, and whether it is acknowledged or fails it changes none of the six
\* cached fields, the two time stamps and the device state.  The status read
\* that follows it makes no exchange and leaves the cache alone when it is made
\* less than 0.5 after the last refresh, and makes a STATUS? exchange when it is
\* made more than 0.5 after it.
C12_WritesKeepCache ==
    [][/\ op' \in Writes =>
            /\ \E v \in WriteValues : xchg' = <<WriteLine(op', v)>>
            /\ wire' \in {"data", "error"}
            /\ exc' = ""
            /\ <<cache, climate, last_status_read, last_temp_read, state>>'
               = <<cache, climate, last_status_read, last_temp_read, state>>
       /\ (op \in Writes /\ op' \in StatusReads) =>
            IF now - last_status_read < StatusMinInterval
            THEN xchg' = <<>> /\ cache' = cache /\ (op' = "read_gain" => ret' = <<gain>>)
            ELSE now - last_status_read > StatusMinInterval => xchg' = <<<<"STATUS?">>>>]_vars

\* a gain of 1 was written, and acknowledged, while the cached gain was 4
C12_Witness ==
    /\ op = "write_gain"
    /\ xchg = <<<<"GAIN=", 1>>>>
    /\ wire = "data"
    /\ gain = 4
    /\ last_status_read > 0

\* C13: init_device leaves the device ON only when the connection was made and
\* the ID? exchange succeeded; when connect or the ID? exchange fails the device
\* is not ON afterwards, and the connection is not tried again.
C13_OperationalOnlyConnected ==
    [][op' = "init_device" =>
         /\ state' = "ON" => (con' = "connected" /\ wire' = "data")
         /\ Len(xchg') <= 1]_vars

\* a STATUS? reply is well formed: six characters at least, the first six of
\* them binary digits
WellFormedStatus(l) == Len(l) >= 6 /\ \A i \in 1..6 : l[i] \in {"0", "1"}

\* a TEMP? reply is well formed: T=<float>;H=<float>
WellFormedClimate(l) ==
    /\ re_temp_match(l) # <<>>
    /\ Float(re_temp_match(l)[1]) # FloatRaise
    /\ Float(re_temp_match(l)[2]) # FloatRaise

\* C14: a refresh whose STATUS? reply is not well formed raises and stores no
\* field of the reply, and a refresh whose TEMP? reply is not well formed
\* raises and changes neither temperature, humidity nor the climate time stamp.
C14_MalformedRejected ==
    [][/\ \A l \in OddStatusLines :
            (/\ ~WellFormedStatus(l)
             /\ \E d \in Delays : read_gain(<<Data(l)>>, d) \/ read_overload(<<Data(l)>>, d)
             /\ con = "connected"
             /\ xchg' # <<>>)
            => (exc' # "" /\ cache' = cache /\ last_status_read' = last_status_read)
       /\ \A l \in OddClimateLines :
            (/\ ~WellFormedClimate(l)
             /\ \E d \in Delays : read_temperature(<<Data(l)>>, d)
             /\ con = "connected"
             /\ xchg' # <<>>)
            => (exc' # "" /\ climate' = climate /\ last_temp_read' = last_temp_read)]_vars

\* C15: one write_read call sends its command once.  When a recv raises, also
\* after a part of a reply was accumulated, nothing is sent again, the call
\* returns the empty string, and a write or the write_read command ends without
\* an exception.
C15_Containment ==
    [][\A c \in Callers :
          /\ call'[c].n <= 1
          /\ (call[c].pc = "recv" /\ call'[c].err)
             => (call'[c].pc = "eval" /\ call'[c].ret = <<>> /\ nsent' = nsent)
          /\ (call[c].pc = "eval" /\ call'[c].pc = "idle")
             => /\ call'[c].n = 1
                /\ call'[c].err => call'[c].out = <<>>
                /\ call'[c].h \in {"write_gain", "write_read"} => call'[c].exc = ""]_vars

\* a write_read command took a first fragment of a reply, then its recv raised,
\* and it returned the empty string
C15_Witness ==
    \E c \in Callers :
        /\ call[c].pc = "idle"
        /\ call[c].h = "write_read"
        /\ call[c].err
        /\ call[c].used # {}
        /\ call[c].n = 1
        /\ call[c].out = <<>>
        /\ call[c].exc = ""

\* the callers that are inside a handler, between its entry and its return
Inside == {c \in Callers : call[c].pc # "idle"}

C17_GroupsIndependent ==
    [][/\ op' \in StatusReads =>
            /\ climate' = climate
            /\ last_temp_read' = last_temp_read
            /\ xchg' \in {<<>>, <<<<"STATUS?">>>>}
       /\ op' \in ClimateReads =>
            /\ cache' = cache
            /\ last_status_read' = last_status_read
            /\ state' = state
            /\ xchg' \in {<<>>, <<<<"TEMP?">>>>}]_vars

\* a climate refresh succeeded while the device was in FAULT with a status
\* snapshot cached
C17_Witness ==
    /\ op \in ClimateReads
    /\ xchg = <<<<"TEMP?">>>>
    /\ exc = ""
    /\ state = "FAULT"
    /\ overload = 1
    /\ last_status_read > 0
    /\ last_temp_read > last_status_read

\* C18 as stated: every write_read call that waits for a reply returns, whatever
\* the amplifier sends, given that each recv delivers or raises.
C18_AlwaysReturns ==
    \A c \in Callers : (call[c].pc = "recv") ~> (call[c].pc = "idle")

\* C19: the text a write_read call returns is made of the amplifier's answer to
\* the command that this call sent: no datagram that answers an earlier command
\* is taken by it, also after an exchange that failed.
C19_Pairing ==
    \A c \in Callers :
        (call[c].pc = "idle" /\ call[c].n > 0) => call[c].used \subseteq {call[c].id}

\* C20: since init_device sets both time stamps to 0 and a successful refresh
\* sets its own to the time, a read that returns a value does so only when its
\* group was refreshed after the last init_device; and no read of the status
\* group or of the amplification fails on a field that was never assigned.
C20_NoUnpopulatedRead ==
    /\ (op \in StatusReads \cup {"read_amplification"} /\ ret # <<>>) => last_status_read # 0
    /\ (op \in ClimateReads /\ ret # <<>>) => last_temp_read # 0
    /\ op \in StatusReads \cup {"read_amplification"} => exc # "AttributeError"

====
